---- MODULE Spec2Model ----
(***************************************************************************)
(* Model of bigstream/align.py: the gradient affine/rigid refiner          *)
(* (affine_align), the B-spline refiner (deformable_align) and the         *)
(* pipeline composer (alignment_pipeline).                                 *)
(*                                                                         *)
(* Python values are records tagged by their type in field t, so that any  *)
(* two values can be compared: None, str, ndarray (shape + contents),      *)
(* tuple and list.  The contents of an array are an opaque number; 0 is    *)
(* the identity.                                                           *)
(***************************************************************************)
EXTENDS Integers, Sequences, FiniteSets, TLC

\* ------------------------------------------------------------------ bounds
MaxMetric == 2
MaxSteps == 2
MaxIterations == 2

\* ------------------------------------------------------------ python values
None == [t |-> "None"]
Str(s) == [t |-> "str", s |-> s]
Ndarray(shape, val) == [t |-> "ndarray", shape |-> shape, val |-> val]
Tuple(items) == [t |-> "tuple", items |-> items]
List(items) == [t |-> "list", items |-> items]

\* isinstance(x, np.ndarray)
IsNdarray(x) == x.t = "ndarray"

\* a square matrix with n rows
Matrix(n, val) == Ndarray(<<n, n>>, val)

\* np.eye(n)
Eye(n) == Matrix(n, 0)

\* the marker string of the center-of-mass initialisation
CENTER == Str("CENTER")

\* fix.shape for an image of ndim axes
FixShape(ndim) == [i \in 1..ndim |-> 8]

\* the fixed image spacing, one entry per axis
FixSpacing(ndim) == [i \in 1..ndim |-> 1]

\* contents of a transform the optimizer produced after nstatic static transforms
OptimizedVal(nstatic) == 10 + nstatic

\* --------------------------------------------------- metric/optimizer engine
\* One run of the engine: raise_at names the engine call that raises
\* (0 none, 1 the initial MetricEvaluate, 2 Execute, 3 the final
\* MetricEvaluate); initial and final are the two metric values.
EngineRuns == [raise_at : 0..3, initial : 0..MaxMetric, final : 0..MaxMetric]

\* what a stage hands back: the returned value, the message it printed,
\* and whether an exception left the function instead
Returned(ret, log) == [ret |-> ret, log |-> log, raised |-> FALSE]
Raised(log) == [ret |-> None, log |-> log, raised |-> TRUE]

OnEngineExceptionEscapes(default) == Raised("exception")

\* except Exception as e: ... return default
OnEngineException(default) == Returned(default, "exception")

ImprovedOrEqual(initial_metric_value, final_metric_value) ==
    final_metric_value <= initial_metric_value

\* if final_metric_value < initial_metric_value
Improved(initial_metric_value, final_metric_value) ==
    final_metric_value < initial_metric_value

\* ------------------------------------------------------------- affine_align
InitialTransformGivenOrCenter(initial_condition) ==
    IsNdarray(initial_condition) \/ initial_condition = CENTER

\* initial_transform_given = isinstance(initial_condition, np.ndarray)
InitialTransformGiven(initial_condition) == IsNdarray(initial_condition)

\* "determine the correct default"
AffineDefault(ndim, initial_condition, default) ==
    LET d1 == IF default = None THEN Eye(ndim + 1) ELSE default
    IN  IF InitialTransformGiven(initial_condition) /\ d1 = Eye(ndim + 1)
        THEN initial_condition
        ELSE d1

\* ut.affine_transform_to_matrix(transform) after a successful optimization
AffineOptimized(ndim, rigid, static_transform_list) ==
    Matrix(ndim + 1, OptimizedVal(Len(static_transform_list)) + (IF rigid THEN 50 ELSE 0))

affine_align(ndim, rigid, initial_condition, static_transform_list, default, eng) ==
    LET d == AffineDefault(ndim, initial_condition, default)
    IN  IF eng.raise_at # 0
        THEN OnEngineException(d)
        ELSE IF Improved(eng.initial, eng.final)
             THEN Returned(AffineOptimized(ndim, rigid, static_transform_list), "succeeded")
             ELSE Returned(d, "no_improvement")

\* --------------------------------------------------------- deformable_align
\* `not x` for the values a default can take
Falsy(x) == x = None \/ (x.t = "tuple" /\ x.items = <<>>)

\* the number of elements of an array of the given shape
RECURSIVE Size(_)
Size(shape) == IF shape = <<>> THEN 1 ELSE Head(shape) * Size(Tail(shape))

\* "not x" raises ValueError for an array of more than one element
AmbiguousTruth(x) == IsNdarray(x) /\ Size(x.shape) > 1

\* parameters of a B-spline grid, as one concatenated 1d array
BSplineParams(val) == Ndarray(<<6>>, val)

\* ut.bspline_to_displacement_field(transform, initial_fix_shape, ...)
DisplacementField(ndim, val) == Ndarray(FixShape(ndim) \o <<ndim>>, val)

\* "now we can set the default"
DeformDefault(ndim, default) ==
    IF Falsy(default)
    THEN Tuple(<<BSplineParams(0), DisplacementField(ndim, 0)>>)
    ELSE default

\* return params, field  (after a successful optimization)
DeformOptimized(ndim, static_transform_list) ==
    LET v == OptimizedVal(Len(static_transform_list))
    IN  Tuple(<<BSplineParams(v), DisplacementField(ndim, v)>>)

deformable_align(ndim, static_transform_list, default, eng) ==
    LET d == DeformDefault(ndim, default)
    IN  IF AmbiguousTruth(default) THEN Raised("ambiguous_default")
        ELSE IF eng.raise_at # 0
        THEN OnEngineException(d)
        ELSE IF Improved(eng.initial, eng.final)
             THEN Returned(DeformOptimized(ndim, static_transform_list), "succeeded")
             ELSE Returned(d, "no_improvement")

\* -------------------------------------- feature_point_ransac_affine_align
MinSpots == 100
MinMatches == 50

\* diagonal entries and diagonal_constraint are counted in hundredths
DiagonalConstraint == 25

Abs(x) == IF x < 0 THEN -x ELSE x

DegenerateInclusive(diag, diagonal_constraint) ==
    \E i \in DOMAIN diag : Abs(diag[i] - 100) >= diagonal_constraint

\* np.any( np.abs(np.diag(Aff) - 1) > diagonal_constraint )
Degenerate(diag, diagonal_constraint) ==
    \E i \in DOMAIN diag : Abs(diag[i] - 100) > diagonal_constraint

\* One run of the detector, the matcher and the consensus fitter: the
\* number of spots of each image, the number of matched pairs, the
\* fitter's success flag and the diagonal of the fitted linear part.
RansacRun(nfix, nmov, nmatch, fit_ok, diag) ==
    [nfix |-> nfix, nmov |-> nmov, nmatch |-> nmatch, fit_ok |-> fit_ok, diag |-> diag]

RansacDefaultUnset(ndim, default) == default

\* "establish default"
RansacDefault(ndim, default) == IF default = None THEN Eye(ndim + 1) ELSE default

\* affine = np.eye(fix.ndim + 1); affine[:fix.ndim, :] = Aff
RansacFitted(ndim, static_transform_list) ==
    Matrix(ndim + 1, 20 + Len(static_transform_list))

\* caller-supplied spots: an array of n rows and the given number of columns
Spots(n, columns) == Ndarray(<<n, columns>>, 0)

\* np.argsort(spots[:, 3]) needs a fourth column: detected spots have one
\* (coordinates and strength), supplied spots may not
SortRaises(spots) == IsNdarray(spots) /\ spots.shape[2] < 4

\* The function with all the arguments the model distinguishes; run holds
\* the lengths of the spot arrays in use, detected or supplied.
RansacAlign(ndim, static_transform_list, default, diagonal_constraint, fix_spots, mov_spots, run) ==
    LET d == RansacDefault(ndim, default)
    IN  IF run.nfix < MinSpots THEN Returned(d, "insufficient_fixed_spots")
        ELSE IF run.nmov < MinSpots THEN Returned(d, "insufficient_moving_spots")
        ELSE IF SortRaises(fix_spots) \/ SortRaises(mov_spots)
             THEN Raised("index_error")
        ELSE IF run.nmatch < MinMatches THEN Returned(d, "insufficient_matches")
        \* a failed fit hands back no matrix and np.diag(None) raises
        ELSE IF ~run.fit_ok THEN Raised("fit_failed")
        ELSE IF Degenerate(run.diag, diagonal_constraint)
             THEN Returned(d, "degenerate_affine")
             ELSE Returned(RansacFitted(ndim, static_transform_list), "fitted")

\* the call with diagonal_constraint, fix_spots and mov_spots left at their
\* defaults
feature_point_ransac_affine_align(ndim, static_transform_list, default, run) ==
    RansacAlign(ndim, static_transform_list, default, DiagonalConstraint,
                None, None, run)

\* the collaborators one call invokes, in order
RansacInvoked(fix_spots, mov_spots, run) ==
    (IF fix_spots = None THEN <<"blob_detection_fix">> ELSE <<>>) \o
    (IF run.nfix < MinSpots THEN <<>>
     ELSE (IF mov_spots = None THEN <<"blob_detection_mov">> ELSE <<>>) \o
          (IF run.nmov < MinSpots \/ SortRaises(fix_spots) \/ SortRaises(mov_spots)
           THEN <<>>
           ELSE <<"get_contexts", "pairwise_correlation", "match_points">> \o
                (IF run.nmatch < MinMatches THEN <<>> ELSE <<"estimateAffine3D">>)))

\* np.diag(Aff) of the fitted 3x4 matrix
NpDiag(Aff) == [i \in 1..3 |-> Aff[i][i]]

\* affine = np.eye(fix.ndim + 1); affine[:fix.ndim, :] = Aff  (entries in
\* hundredths)
Augment(Aff) ==
    [i \in 1..4 |-> IF i <= 3 THEN Aff[i]
                    ELSE [j \in 1..4 |-> IF j = 4 THEN 100 ELSE 0]]

\* ----------------------------------------------------- random_affine_search
\* np.finfo(np.float64).max, above every metric value
WORST_POSSIBLE_SCORE == MaxMetric + 1

\* ut.physical_parameters_to_affine_matrix_3d(params[c], center): always a
\* 4x4 matrix; candidate 1 is the identity row of params
CandidateMatrix(c) == Matrix(4, IF c = 1 THEN 0 ELSE 30 + c)

\* the orders in which argpartition followed by argsort can hand back the
\* nreturn best candidates: ascending by score, ties in any order
BestOrders(scores, nreturn) ==
    LET n == Len(scores)
    IN  { o \in [1..nreturn -> 1..n] :
            /\ \A a, b \in 1..nreturn : a < b =>
                   o[a] # o[b] /\ scores[o[a]] <= scores[o[b]]
            /\ \A c \in 1..n :
                   (\A a \in 1..nreturn : o[a] # c) =>
                       \A a \in 1..nreturn : scores[o[a]] <= scores[c] }

\* The set of lists random_affine_search can return for these scores; empty
\* when np.argpartition(scores, nreturn) raises (nreturn out of bounds).
random_affine_search(scores, nreturn) ==
    IF nreturn >= Len(scores)
    THEN {}
    ELSE { List([a \in 1..nreturn |-> CandidateMatrix(o[a])]) :
             o \in BestOrders(scores, nreturn) }

\* ------------------------------------------------------------- python dicts
PyInt(n) == [t |-> "int", v |-> n]

EmptyDict == [k \in {} |-> None]

\* d.get(key, otherwise)
Get(d, key, otherwise) == IF key \in DOMAIN d THEN d[key] ELSE otherwise

\* d[key] = value
SetItem(d, key, value) ==
    [k \in DOMAIN d \cup {key} |-> IF k = key THEN value ELSE d[k]]

MergeGlobalWins(kw, arguments) ==
    [k \in DOMAIN kw \cup DOMAIN arguments |->
        IF k \in DOMAIN kw THEN kw[k] ELSE arguments[k]]

\* {**kwargs, **arguments}
Merge(kw, arguments) ==
    [k \in DOMAIN kw \cup DOMAIN arguments |->
        IF k \in DOMAIN arguments THEN arguments[k] ELSE kw[k]]

\* ------------------------------------------- transform list composer
\* compose_transform_list(transform_list, spacing): the single transform
\* that stands for the list, composed earliest first
compose_transform_list(transform_list, spacing) ==
    [t |-> "composed", transform_list |-> transform_list, spacing |-> spacing]

\* ------------------------------------------------------ alignment_pipeline
VARIABLES
    ndim,                   \* fix.ndim
    steps,                  \* the caller's list of (alignment, arguments)
    kwargs,                 \* the global keyword arguments
    static_transform_list,  \* the caller's static transforms
    new_transforms,         \* the list the loop accumulates
    calls,                  \* one record per stage invocation, in order
    pc,                     \* "loop", "done" (returned) or "raised"
    return_format,          \* the requested format, read after the loop
    result,                 \* the returned value
    al,                     \* one direct call of a stage function or helper
    caller                  \* the calls of alignment_pipeline by one caller

vars == <<ndim, steps, kwargs, static_transform_list, new_transforms, calls,
          pc, return_format, result, al, caller>>

pipeline_vars == <<ndim, steps, kwargs, static_transform_list, new_transforms,
                   calls, pc, return_format, result, caller>>

\* The caller's side of a call: whether static_transform_list was omitted,
\* so that the parameter is bound to the list object of the signature, which
\* all calls share; what the earlier call did ("none" for a first call); and
\* the contents of that shared list object.
Caller(omitted, earlier, default_static) ==
    [omitted |-> omitted, earlier |-> earlier, default_static |-> default_static]

Alignments == {"ransac", "random", "rigid", "affine", "deform"}

ReturnFormats == {"independent", "compressed", "flatten", "other"}

\* the global keyword arguments a caller passes
GlobalKwargs ==
    { EmptyDict,
      [iterations |-> PyInt(9), alignment_spacing |-> PyInt(2)] }

\* the argument dicts a caller gives to a step of each kind; the required
\* positional arguments of the stage are always present
AffineArguments(nd) ==
    { EmptyDict,
      [default |-> Matrix(nd + 1, 1), iterations |-> PyInt(5),
       static_transform_list |-> List(<<Matrix(nd + 1, 2)>>)] }

DeformArguments(nd) ==
    { [control_point_spacing |-> PyInt(4),
       control_point_levels |-> List(<<PyInt(2), PyInt(1)>>)],
      [control_point_spacing |-> PyInt(4),
       control_point_levels |-> List(<<PyInt(2), PyInt(1)>>),
       default |-> Tuple(<<BSplineParams(1), DisplacementField(nd, 1)>>),
       iterations |-> PyInt(5)] }

RandomArguments(nd) ==
    { [random_iterations |-> PyInt(1)],
      [random_iterations |-> PyInt(1), iterations |-> PyInt(5),
       static_transform_list |-> List(<<>>)] }

RansacArguments(nd) ==
    { [blob_sizes |-> List(<<PyInt(3), PyInt(8)>>)],
      [blob_sizes |-> List(<<PyInt(3), PyInt(8)>>), default |-> Matrix(nd + 1, 1)] }

StepArguments(alignment, nd) ==
    CASE alignment = "ransac" -> RansacArguments(nd)
      [] alignment = "random" -> RandomArguments(nd)
      [] alignment = "deform" -> DeformArguments(nd)
      [] OTHER -> AffineArguments(nd)

\* feature_point_ransac_affine_align only works on 3D images
StepsOf(nd) ==
    UNION { { [alignment |-> a, arguments |-> d] : d \in StepArguments(a, nd) } :
            a \in (IF nd = 3 THEN Alignments ELSE Alignments \ {"ransac"}) }

StepLists(nd) == UNION { [1..n -> StepsOf(nd)] : n \in 1..MaxSteps }

\* the engine runs, detector runs and candidate scores drawn for a stage
\* of the pipeline
PipelineEngineRuns ==
    { e \in EngineRuns : e.initial = 1 /\ e.final <= 1 /\ e.raise_at \in {0, 2} }

PipelineRansacRuns ==
    { RansacRun(99, 100, 50, TRUE, <<100, 100, 100>>),
      RansacRun(100, 99, 50, TRUE, <<100, 100, 100>>),
      RansacRun(100, 100, 49, TRUE, <<100, 100, 100>>),
      RansacRun(100, 100, 50, FALSE, <<100, 100, 100>>),
      RansacRun(100, 100, 50, TRUE, <<200, 100, 100>>),
      RansacRun(100, 100, 50, TRUE, <<100, 100, 100>>) }

PipelineScores(n) == [1..n -> {0, 1, WORST_POSSIBLE_SCORE}]

Init ==
    /\ ndim \in {2, 3}
    /\ steps \in StepLists(ndim)
    /\ kwargs \in GlobalKwargs
    /\ caller \in { Caller(o, "none", <<>>) : o \in BOOLEAN }
    /\ static_transform_list \in (IF caller.omitted
                                  THEN {caller.default_static}
                                  ELSE {<<>>, <<Matrix(ndim + 1, 3)>>})
    /\ new_transforms = <<>>
    /\ calls = <<>>
    /\ pc = "loop"
    /\ return_format = None
    /\ result = None
    /\ al = [fn |-> "none"]

\* ---- the loop over steps
LoopIndexStuck(transforms) == IF transforms = <<>> THEN 1 ELSE Len(transforms)

\* for alignment, arguments in steps: the position the loop is at
LoopIndex(transforms) == Len(transforms) + 1

SetStaticIfAbsent(arguments, accumulated) ==
    IF "static_transform_list" \in DOMAIN arguments
    THEN arguments
    ELSE SetItem(arguments, "static_transform_list", List(accumulated))

\* arguments['static_transform_list'] = static_transform_list + new_transforms
SetStatic(arguments, accumulated) ==
    SetItem(arguments, "static_transform_list", List(accumulated))

\* the arguments the stage of step i is invoked with
StageArguments(i) ==
    SetStatic(Merge(kwargs, steps[i].arguments),
              static_transform_list \o new_transforms)

\* the align table: 'random' keeps [0] of the returned list, 'deform'
\* keeps [1] of the returned pair
Align(alignment, ret) ==
    CASE alignment = "random" -> ret.items[1]
      [] alignment = "deform" -> ret.items[2]
      [] OTHER -> ret

IterateInPlace(alignment, out) ==
    LET i == LoopIndex(new_transforms)
    IN  /\ calls' = Append(calls, [step |-> i,
                                   alignment |-> alignment,
                                   arguments |-> StageArguments(i),
                                   raw |-> out.ret,
                                   log |-> out.log,
                                   raised |-> out.raised])
        /\ IF out.raised
           THEN pc' = "raised" /\ UNCHANGED <<new_transforms, static_transform_list>>
           ELSE /\ new_transforms' = Append(new_transforms, Align(alignment, out.ret))
                /\ static_transform_list' =
                       Append(static_transform_list, Align(alignment, out.ret))
                /\ pc' = pc
        /\ UNCHANGED <<ndim, steps, kwargs, return_format, result, al, caller>>

\* One iteration of the loop whose stage handed back `out`.
Iterate(alignment, out) ==
    LET i == LoopIndex(new_transforms)
    IN  /\ calls' = Append(calls, [step |-> i,
                                   alignment |-> alignment,
                                   arguments |-> StageArguments(i),
                                   raw |-> out.ret,
                                   log |-> out.log,
                                   raised |-> out.raised])
        /\ IF out.raised
           THEN pc' = "raised" /\ UNCHANGED new_transforms
           ELSE /\ new_transforms' = Append(new_transforms, Align(alignment, out.ret))
                /\ pc' = pc
        /\ UNCHANGED <<ndim, steps, kwargs, static_transform_list,
                       return_format, result, al, caller>>

AtStep(alignment) ==
    /\ pc = "loop"
    /\ LoopIndex(new_transforms) <= Len(steps)
    /\ steps[LoopIndex(new_transforms)].alignment = alignment

StepRansac ==
    /\ AtStep("ransac")
    /\ LET a == StageArguments(LoopIndex(new_transforms))
       IN  \E run \in PipelineRansacRuns :
             Iterate("ransac",
                     feature_point_ransac_affine_align(
                         ndim, a.static_transform_list.items,
                         Get(a, "default", None), run))

StepRandom ==
    /\ AtStep("random")
    /\ LET a == StageArguments(LoopIndex(new_transforms))
           n == a.random_iterations.v + 1
           nreturn == Get(a, "nreturn", PyInt(1)).v
       IN  \E scores \in PipelineScores(n) :
             IF random_affine_search(scores, nreturn) = {}
             THEN Iterate("random", Raised("kth_out_of_bounds"))
             ELSE \E ret \in random_affine_search(scores, nreturn) :
                    Iterate("random", Returned(ret, "searched"))

StepRigid ==
    /\ AtStep("rigid")
    /\ LET a == StageArguments(LoopIndex(new_transforms))
       IN  \E eng \in PipelineEngineRuns :
             Iterate("rigid",
                     affine_align(ndim, TRUE, Get(a, "initial_condition", None),
                                  a.static_transform_list.items,
                                  Get(a, "default", None), eng))

StepAffine ==
    /\ AtStep("affine")
    /\ LET a == StageArguments(LoopIndex(new_transforms))
       IN  \E eng \in PipelineEngineRuns :
             Iterate("affine",
                     affine_align(ndim, FALSE, Get(a, "initial_condition", None),
                                  a.static_transform_list.items,
                                  Get(a, "default", None), eng))

StepDeform ==
    /\ AtStep("deform")
    /\ LET a == StageArguments(LoopIndex(new_transforms))
       IN  \E eng \in PipelineEngineRuns :
             Iterate("deform",
                     deformable_align(ndim, a.static_transform_list.items,
                                      Get(a, "default", None), eng))

\* ---- the return formats
\* [x.shape for x in new_transforms]
Shapes(transforms) == [i \in DOMAIN transforms |-> transforms[i].shape]

\* np.array(shapes, dtype=object) is a 2d array of integers when there is
\* at least one shape and all shapes have the same number of axes, and a
\* 1d array of tuples otherwise
IsTwoDimensional(shapes) ==
    /\ Len(shapes) >= 1
    /\ \A i \in DOMAIN shapes : Len(shapes[i]) = Len(shapes[1])

\* the number of entries np.where(shapes[:-1] != shapes[1:])[0] holds for
\* the comparison of shapes[i] with shapes[i+1]: one per differing element
\* of a 2d array, one per differing tuple of a 1d array
Mismatches(shapes, i) ==
    IF IsTwoDimensional(shapes)
    THEN Cardinality({ j \in DOMAIN shapes[i] : shapes[i][j] # shapes[i + 1][j] })
    ELSE IF shapes[i] # shapes[i + 1] THEN 1 ELSE 0

Repeat(x, n) == [k \in 1..n |-> x]

RECURSIVE WhereChanges(_, _)
\* np.where(shapes[:-1] != shapes[1:])[0] + 1, from comparison i on
WhereChanges(shapes, i) ==
    IF i >= Len(shapes)
    THEN <<>>
    ELSE Repeat(i, Mismatches(shapes, i)) \o WhereChanges(shapes, i + 1)

\* changes = [0,] + list(changes) + [len(new_transforms),]
Changes(transforms) ==
    <<0>> \o WhereChanges(Shapes(transforms), 1) \o <<Len(transforms)>>

\* [F(a, b) for a, b in zip(changes[:-1], changes[1:])]
Compressed(transforms, spacing) ==
    LET changes == Changes(transforms)
    IN  List([k \in 1..(Len(changes) - 1) |->
                compose_transform_list(
                    SubSeq(transforms, changes[k] + 1, changes[k + 1]), spacing)])

FlattenWithStatic(static, transforms, spacing) ==
    compose_transform_list(static \o transforms, spacing)

\* return compose_transform_list(new_transforms, fix_spacing)
Flatten(static, transforms, spacing) ==
    compose_transform_list(transforms, spacing)

IndependentWithStatic(static, transforms) == List(static \o transforms)

\* return new_transforms
Independent(static, transforms) == List(transforms)

ReturnValueElseFlatten(format) ==
    CASE format = "independent" -> Independent(static_transform_list, new_transforms)
      [] format = "compressed" -> Compressed(new_transforms, FixSpacing(ndim))
      [] OTHER -> Flatten(static_transform_list, new_transforms, FixSpacing(ndim))

\* "return in the requested format"; no branch for any other format, and
\* the function then returns None
ReturnValue(format) ==
    CASE format = "independent" -> Independent(static_transform_list, new_transforms)
      [] format = "compressed" -> Compressed(new_transforms, FixSpacing(ndim))
      [] format = "flatten" ->
            Flatten(static_transform_list, new_transforms, FixSpacing(ndim))
      [] OTHER -> None

Return ==
    /\ pc = "loop"
    /\ LoopIndex(new_transforms) > Len(steps)
    /\ \E format \in ReturnFormats :
         /\ return_format' = Str(format)
         /\ result' = ReturnValue(format)
    /\ pc' = "done"
    /\ UNCHANGED <<ndim, steps, kwargs, static_transform_list, new_transforms,
                   calls, al, caller>>

\* The caller calls the pipeline once more, with the same steps and keyword
\* arguments and without static_transform_list: the parameter is bound to
\* the shared list object, whose contents are what the earlier call left.
CallAgain ==
    /\ pc \in {"done", "raised"}
    /\ caller.earlier = "none"
    /\ caller' = Caller(TRUE,
                        IF caller.omitted THEN "omitted" ELSE "given",
                        IF caller.omitted THEN static_transform_list
                        ELSE caller.default_static)
    /\ static_transform_list' = caller'.default_static
    /\ new_transforms' = <<>>
    /\ calls' = <<>>
    /\ pc' = "loop"
    /\ return_format' = None
    /\ result' = None
    /\ UNCHANGED <<ndim, steps, kwargs, al>>

Next ==
    \/ StepRansac \/ StepRandom \/ StepRigid \/ StepAffine \/ StepDeform
    \/ Return \/ CallAgain

Spec == Init /\ [][Next]_vars

\* ------------------------- direct calls of affine_align / deformable_align
\* the values a caller passes as initial_condition and as default
InitialConditions(nd) == { None, CENTER, Eye(nd + 1), Matrix(nd + 1, 1) }

AffineDefaults(nd) == { None, Eye(nd + 1), Matrix(nd + 1, 1), Matrix(nd + 1, 2) }

DeformDefaults(nd) ==
    { None, Tuple(<<BSplineParams(1), DisplacementField(nd, 1)>>),
      Tuple(<<>>), DisplacementField(nd, 1) }

StaticLists(nd) == { <<>>, <<Matrix(nd + 1, 3)>> }

InitAlign ==
    /\ ndim = 3
    /\ steps = <<>>
    /\ kwargs = EmptyDict
    /\ static_transform_list = <<>>
    /\ new_transforms = <<>>
    /\ calls = <<>>
    /\ pc = "idle"
    /\ return_format = None
    /\ result = None
    /\ caller = Caller(TRUE, "none", <<>>)
    /\ al = [fn |-> "none"]

CallAffineAlign ==
    /\ al.fn = "none"
    /\ \E nd \in {2, 3}, rigid \in BOOLEAN, eng \in EngineRuns :
       \E ic \in InitialConditions(nd), d \in AffineDefaults(nd),
          stl \in StaticLists(nd) :
         al' = [fn |-> "affine_align", ndim |-> nd, rigid |-> rigid,
                initial_condition |-> ic, default |-> d,
                static_transform_list |-> stl, eng |-> eng,
                out |-> affine_align(nd, rigid, ic, stl, d, eng)]
    /\ UNCHANGED pipeline_vars

CallDeformableAlign ==
    /\ al.fn = "none"
    /\ \E nd \in {2, 3}, eng \in EngineRuns :
       \E d \in DeformDefaults(nd), stl \in StaticLists(nd) :
         al' = [fn |-> "deformable_align", ndim |-> nd, rigid |-> FALSE,
                initial_condition |-> None, default |-> d,
                static_transform_list |-> stl, eng |-> eng,
                out |-> deformable_align(nd, stl, d, eng)]
    /\ UNCHANGED pipeline_vars

NextAlign == CallAffineAlign \/ CallDeformableAlign

SpecAlign == InitAlign /\ [][NextAlign]_vars

\* ================================================================ claims
\* the messages a stage prints when it falls back to its default
FallbackLogs ==
    { "exception", "no_improvement", "insufficient_fixed_spots",
      "insufficient_moving_spots", "insufficient_matches", "degenerate_affine" }

\* what the step of invocation c contributes: the best matrix of a random
\* search, the displacement field of a deformable alignment, the returned
\* matrix otherwise
StageResult(c) ==
    CASE c.alignment = "random" -> c.raw.items[1]
      [] c.alignment = "deform" -> c.raw.items[2]
      [] OTHER -> c.raw

PerStepResults == [i \in 1..Len(calls) |-> StageResult(calls[i])]

\* C1: the stage of step k is invoked with the caller's static transforms
\* followed by the results of the steps before k, whatever the step's own
\* dict says, and its result becomes element k of the accumulated list.
C1_AccumulatedStaticContext ==
    \A k \in 1..Len(calls) :
        /\ calls[k].arguments.static_transform_list =
               List(static_transform_list \o SubSeq(new_transforms, 1, k - 1))
        /\ ~calls[k].raised =>
               /\ k <= Len(new_transforms)
               /\ new_transforms[k] = StageResult(calls[k])

C1_Witness ==
    /\ Len(calls) = 2
    /\ static_transform_list # <<>>
    /\ "static_transform_list" \in DOMAIN steps[2].arguments
    /\ Len(new_transforms) = 2

\* C2: the stages are invoked once each, in list order; a pipeline that
\* returned, in any format, invoked exactly one stage per step.
C2_EachStepOnceInOrder ==
    /\ Len(calls) <= Len(steps)
    /\ \A k \in 1..Len(calls) :
           calls[k].step = k /\ calls[k].alignment = steps[k].alignment
    /\ pc = "done" => Len(calls) = Len(steps)

C2_Witness ==
    /\ pc = "done"
    /\ return_format = Str("compressed")
    /\ Len(steps) = 2
    /\ steps[1] = steps[2]

\* a transform of the image pair: a homogeneous matrix or a displacement field
WellFormed(x) ==
    /\ IsNdarray(x)
    /\ x.shape = <<ndim + 1, ndim + 1>> \/ x.shape = FixShape(ndim) \o <<ndim>>

\* C3: a stage that falls back raises nothing and contributes exactly one
\* well-formed transform at its own position, every later stage has that
\* transform in its static context, and a pipeline that returned holds one
\* transform per step.
C3_FallbackContained ==
    /\ \A k \in 1..Len(calls) :
           calls[k].log \in FallbackLogs =>
               /\ ~calls[k].raised
               /\ k <= Len(new_transforms)
               /\ WellFormed(new_transforms[k])
               /\ new_transforms[k] = StageResult(calls[k])
               /\ \A j \in (k + 1)..Len(calls) :
                      LET stl == calls[j].arguments.static_transform_list.items
                      IN  /\ Len(stl) = Len(static_transform_list) + j - 1
                          /\ stl[Len(static_transform_list) + k] = new_transforms[k]
               /\ (pc = "loop" /\ k = Len(calls)) =>
                      LoopIndex(new_transforms) = k + 1
    /\ pc = "done" => Len(new_transforms) = Len(steps)

C3_Witness ==
    /\ pc = "done"
    /\ Len(steps) = 2
    /\ calls[1].log = "exception"
    /\ calls[2].log = "succeeded"

\* C4: the arguments of every stage are the global keyword arguments
\* overridden by the step's own dict, and hold nothing else.
C4_StepOverridesGlobal ==
    \A k \in 1..Len(calls) :
        LET a == calls[k].arguments
            d == steps[k].arguments
        IN  \A key \in (DOMAIN a \cup DOMAIN d \cup DOMAIN kwargs)
                           \ {"static_transform_list"} :
                /\ key \in DOMAIN d => key \in DOMAIN a /\ a[key] = d[key]
                /\ (key \notin DOMAIN d /\ key \in DOMAIN kwargs) =>
                       key \in DOMAIN a /\ a[key] = kwargs[key]
                /\ key \in DOMAIN a => key \in DOMAIN d \cup DOMAIN kwargs

C4_Witness ==
    /\ Len(calls) = 2
    /\ "iterations" \in DOMAIN kwargs
    /\ "iterations" \in DOMAIN steps[1].arguments
    /\ "iterations" \notin DOMAIN steps[2].arguments
    /\ calls[1].arguments.iterations # calls[2].arguments.iterations

\* C5: the independent format returns one element per step, the i-th being
\* the result of step i, and none of the caller's static transforms.
C5_IndependentFormat ==
    (pc = "done" /\ return_format = Str("independent")) =>
        /\ result.t = "list"
        /\ Len(result.items) = Len(steps)
        /\ \A i \in 1..Len(steps) :
               /\ result.items[i] = StageResult(calls[i])
               /\ steps[i].alignment = "deform" =>
                      result.items[i].shape = FixShape(ndim) \o <<ndim>>
               /\ steps[i].alignment = "random" =>
                      result.items[i] = calls[i].raw.items[1]

C5_Witness ==
    /\ pc = "done"
    /\ return_format = Str("independent")
    /\ static_transform_list # <<>>
    /\ Len(steps) = 2
    /\ steps[1].alignment = "random"
    /\ steps[2].alignment = "deform"

\* the length of the longest prefix of transforms whose shapes are all equal
RECURSIVE RunLength(_)
RunLength(transforms) ==
    IF Len(transforms) <= 1 THEN Len(transforms)
    ELSE IF transforms[1].shape # transforms[2].shape THEN 1
    ELSE 1 + RunLength(Tail(transforms))

\* the maximal runs of adjacent transforms of equal shape, in order
RECURSIVE MaximalRuns(_)
MaximalRuns(transforms) ==
    IF transforms = <<>> THEN <<>>
    ELSE LET m == RunLength(transforms)
         IN  <<SubSeq(transforms, 1, m)>>
                 \o MaximalRuns(SubSeq(transforms, m + 1, Len(transforms)))

C7_FlattenComposesIndependent ==
    (pc = "done" /\ return_format = Str("flatten")) =>
        /\ PerStepResults = Independent(static_transform_list, new_transforms).items
        /\ result = compose_transform_list(PerStepResults, FixSpacing(ndim))

C7_Witness ==
    /\ pc = "done"
    /\ return_format = Str("flatten")
    /\ static_transform_list # <<>>
    /\ Len(steps) = 2
    /\ steps[1].alignment = "rigid"
    /\ steps[2].alignment = "affine"

\* C8: affine_align with an explicit default returns that default on every
\* fallback, whatever the default and the initial condition are.
C8_ExplicitDefaultReturned ==
    (/\ al.fn = "affine_align"
     /\ al.default # None
     /\ al.out.log \in {"exception", "no_improvement"}) =>
        al.out.ret = al.default

\* C9: affine_align without a default returns, on every fallback, the
\* initial condition when that is a matrix and the identity otherwise, the
\* center-of-mass marker included.
C9_ImplicitDefault ==
    (/\ al.fn = "affine_align"
     /\ al.default = None
     /\ al.out.log \in {"exception", "no_improvement"}) =>
        al.out.ret = (IF IsNdarray(al.initial_condition)
                      THEN al.initial_condition
                      ELSE Eye(al.ndim + 1))

C9_Witness ==
    /\ al.fn = "affine_align"
    /\ al.default = None
    /\ al.initial_condition = CENTER
    /\ al.eng.raise_at = 3
    /\ al.out.ret = Eye(al.ndim + 1)

\* the transform a successful optimization of call c returns
OptimizedOf(c) ==
    IF c.fn = "affine_align"
    THEN AffineOptimized(c.ndim, c.rigid, c.static_transform_list)
    ELSE DeformOptimized(c.ndim, c.static_transform_list)

\* call c got as far as the engine calls of its try block
EngineInvoked(c) == ~(c.fn = "deformable_align" /\ AmbiguousTruth(c.default))

\* C10: the optimized transform is returned only if no engine call raised
\* and the final metric is strictly lower than the initial one; with equal
\* metrics the default is returned.
C10_StrictImprovement ==
    al.fn \in {"affine_align", "deformable_align"} =>
        /\ (al.out.log = "succeeded" \/ al.out.ret = OptimizedOf(al)) =>
               /\ al.eng.raise_at = 0
               /\ al.eng.final < al.eng.initial
               /\ al.out.ret = OptimizedOf(al)
        /\ (EngineInvoked(al) /\ al.eng.raise_at = 0
                /\ al.eng.final = al.eng.initial) =>
               /\ al.out.log = "no_improvement"
               /\ al.out.ret # OptimizedOf(al)
               /\ al.out.ret =
                      (IF al.fn = "affine_align"
                       THEN AffineDefault(al.ndim, al.initial_condition, al.default)
                       ELSE DeformDefault(al.ndim, al.default))

C10_Witness ==
    /\ al.fn = "deformable_align"
    /\ al.eng.raise_at = 0
    /\ al.eng.final = al.eng.initial
    /\ al.out.log = "no_improvement"

\* =========================================================================
\* ------------------------------------ direct calls of random_affine_search
\* the pipeline is not running during a direct call of a stage
IdlePipeline ==
    /\ ndim = 3
    /\ steps = <<>>
    /\ kwargs = EmptyDict
    /\ static_transform_list = <<>>
    /\ new_transforms = <<>>
    /\ calls = <<>>
    /\ pc = "idle"
    /\ return_format = None
    /\ result = None
    /\ caller = Caller(TRUE, "none", <<>>)

\* the outcome of one metric evaluation: a metric value, or FAILED when the
\* evaluation raises
FAILED == -1
Evaluations == (0..MaxMetric) \cup {FAILED}

\* score_affine: the irm wrapper catches the exception of MetricEvaluate and
\* returns WORST_POSSIBLE_SCORE; the patch_mutual_information wrapper has no
\* try block
score_affine(use_patch_mutual_information, evaluation) ==
    IF evaluation = FAILED
    THEN [score |-> WORST_POSSIBLE_SCORE, raised |-> use_patch_mutual_information]
    ELSE [score |-> evaluation, raised |-> FALSE]

InitRandom ==
    /\ IdlePipeline
    /\ \E nd \in {2, 3}, ri \in 0..MaxIterations, pmi \in BOOLEAN :
       \E nreturn \in 1..(ri + 1) :
         al = [fn |-> "random_affine_search", ndim |-> nd,
               random_iterations |-> ri, nreturn |-> nreturn,
               use_patch_mutual_information |-> pmi,
               evaluations |-> <<>>, scores |-> <<>>,
               pc |-> "scoring", log |-> "", out |-> None]

\* one iteration of "score all random affines"
ScoreCandidate ==
    /\ al.fn = "random_affine_search"
    /\ al.pc = "scoring"
    /\ Len(al.scores) < al.random_iterations + 1
    /\ \E evaluation \in Evaluations :
         LET s == score_affine(al.use_patch_mutual_information, evaluation)
         IN  al' = IF s.raised
                   THEN [al EXCEPT !.evaluations = Append(@, evaluation),
                                   !.pc = "raised",
                                   !.log = "evaluation_failed"]
                   ELSE [al EXCEPT !.evaluations = Append(@, evaluation),
                                   !.scores = Append(@, s.score)]
    /\ UNCHANGED pipeline_vars

\* "return top results"
ReturnTop ==
    /\ al.fn = "random_affine_search"
    /\ al.pc = "scoring"
    /\ Len(al.scores) = al.random_iterations + 1
    /\ IF random_affine_search(al.scores, al.nreturn) = {}
       THEN al' = [al EXCEPT !.pc = "raised", !.log = "kth_out_of_bounds"]
       ELSE \E ret \in random_affine_search(al.scores, al.nreturn) :
              al' = [al EXCEPT !.pc = "done", !.log = "searched", !.out = ret]
    /\ UNCHANGED pipeline_vars

NextRandom == ScoreCandidate \/ ReturnTop

SpecRandom == InitRandom /\ [][NextRandom]_vars

\* a direct call of random_affine_search that scored every candidate and
\* then left the function
SearchFinished ==
    /\ al.fn = "random_affine_search"
    /\ al.pc \in {"done", "raised"}
    /\ Len(al.scores) = al.random_iterations + 1

\* C11: with random_iterations = 0 and nreturn = 1 the search returns the
\* list holding only the identity matrix.
C11_IdentityOnly ==
    (SearchFinished /\ al.random_iterations = 0 /\ al.nreturn = 1) =>
        /\ al.pc = "done"
        /\ al.out = List(<<Eye(4)>>)

\* the candidate a returned matrix was built from
CandidateOf(m, n) == CHOOSE c \in 1..n : CandidateMatrix(c) = m

\* C12: for 1 <= nreturn <= random_iterations + 1 the search returns nreturn
\* matrices, the lowest-scoring candidates, best first, and the first one
\* scores no worse than the identity candidate.
C12_BestFirst ==
    (SearchFinished /\ al.nreturn \in 1..(al.random_iterations + 1)) =>
        /\ al.pc = "done"
        /\ Len(al.out.items) = al.nreturn
        /\ LET n == al.random_iterations + 1
               c == [a \in 1..al.nreturn |-> CandidateOf(al.out.items[a], n)]
           IN  /\ \A a, b \in 1..al.nreturn :
                      a < b => c[a] # c[b] /\ al.scores[c[a]] <= al.scores[c[b]]
               /\ \A k \in 1..n :
                      (\A a \in 1..al.nreturn : c[a] # k) =>
                          \A a \in 1..al.nreturn : al.scores[c[a]] <= al.scores[k]
               /\ al.scores[c[1]] <= al.scores[1]

\* C13: with either metric a failed evaluation is scored as the worst
\* possible score, raises nothing, and the scoring goes on.
C13_FailedEvaluationScoredWorst ==
    al.fn = "random_affine_search" =>
        /\ \A i \in 1..Len(al.evaluations) :
               al.evaluations[i] = FAILED =>
                   /\ i <= Len(al.scores)
                   /\ al.scores[i] = WORST_POSSIBLE_SCORE
        /\ al.log # "evaluation_failed"

\* =========================================================================
\* ----------------------- direct calls of feature_point_ransac_affine_align
\* lengths of detected or supplied spot arrays, and of the matched pairs
SpotCounts == {MinSpots - 1, MinSpots}
MatchCounts == {MinMatches - 1, MinMatches}

\* the values of the arguments of a direct call
RansacDefaults == { None, Eye(4), Matrix(4, 1) }
DiagonalConstraints == {25, 50}
SuppliedSpots(n) == { None, Spots(n, 3), Spots(n, 4) }

\* diagonal entries the fitter can hand back, in hundredths
DiagonalEntries == {74, 75, 100, 125, 126}

\* the 3x4 matrices of the fitter: a diagonal and one value for the other
\* entries
FittedMatrices ==
    { [i \in 1..3 |-> [j \in 1..4 |-> IF i = j THEN dg[i] ELSE o]] :
        dg \in [1..3 -> DiagonalEntries], o \in {0, 7} }

InitRansac ==
    /\ IdlePipeline
    /\ al = [fn |-> "none"]

CallRansac ==
    /\ al.fn = "none"
    /\ \E nfix \in SpotCounts, nmov \in SpotCounts, nmatch \in MatchCounts,
          fit_ok \in BOOLEAN, Aff \in FittedMatrices :
       \E d \in RansacDefaults, dc \in DiagonalConstraints,
          fs \in SuppliedSpots(nfix), ms \in SuppliedSpots(nmov) :
         LET run == RansacRun(nfix, nmov, nmatch, fit_ok, NpDiag(Aff))
             out == RansacAlign(3, <<>>, d, dc, fs, ms, run)
         IN  al' = [fn |-> "feature_point_ransac_affine_align", ndim |-> 3,
                    default |-> d, diagonal_constraint |-> dc,
                    fix_spots |-> fs, mov_spots |-> ms, run |-> run,
                    Aff |-> IF fit_ok THEN Tuple(Aff) ELSE None,
                    invoked |-> RansacInvoked(fs, ms, run),
                    affine |-> IF out.log = "fitted" THEN Tuple(Augment(Aff)) ELSE None,
                    out |-> out]
    /\ UNCHANGED pipeline_vars

NextRansac == CallRansac

SpecRansac == InitRansac /\ [][NextRansac]_vars

\* x is an element of sequence s
InSeq(x, s) == \E i \in DOMAIN s : s[i] = x

\* C14: with fewer than 100 fixed spots, fewer than 100 moving spots
\* (detected or supplied) or fewer than 50 matched pairs the function returns
\* exactly its default, the identity when unset, raises nothing and does not
\* invoke the consensus fitter; with too few fixed spots it does not invoke
\* the moving-spot detector either.
C14_InsufficientReturnsDefault ==
    (/\ al.fn = "feature_point_ransac_affine_align"
     /\ \/ al.run.nfix < 100
        \/ al.run.nmov < 100
        \/ InSeq("match_points", al.invoked) /\ al.run.nmatch < 50) =>
        /\ ~al.out.raised
        /\ al.out.ret = (IF al.default = None THEN Eye(al.ndim + 1) ELSE al.default)
        /\ ~InSeq("estimateAffine3D", al.invoked)
        /\ al.run.nfix < 100 => ~InSeq("blob_detection_mov", al.invoked)

C14_Witness ==
    /\ al.fn = "feature_point_ransac_affine_align"
    /\ al.default = None
    /\ al.fix_spots # None
    /\ al.mov_spots = None
    /\ al.run.nfix = 99
    /\ al.out.ret = Eye(4)

\* C15: after a fit, the default is returned when some diagonal entry is
\* further than diagonal_constraint from 1; otherwise, the boundary
\* included, the fitted 3x4 matrix is returned unchanged on top of the row
\* [0, 0, 0, 1].
C15_DiagonalGuard ==
    (/\ al.fn = "feature_point_ransac_affine_align"
     /\ InSeq("estimateAffine3D", al.invoked)
     /\ al.run.fit_ok) =>
        IF \E i \in 1..3 :
             Abs(al.Aff.items[i][i] - 100) > al.diagonal_constraint
        THEN /\ ~al.out.raised
             /\ al.out.ret = (IF al.default = None THEN Eye(4) ELSE al.default)
        ELSE /\ ~al.out.raised
             /\ al.out.log = "fitted"
             /\ al.out.ret.shape = <<4, 4>>
             /\ \A i \in 1..3 : al.affine.items[i] = al.Aff.items[i]
             /\ al.affine.items[4] = <<0, 0, 0, 100>>

C15_Witness ==
    /\ al.fn = "feature_point_ransac_affine_align"
    /\ al.run.fit_ok
    /\ al.diagonal_constraint = 25
    /\ al.Aff.items[1][1] = 125
    /\ al.Aff.items[2][2] = 75
    /\ al.out.log = "fitted"

\* C16: on an engine exception or a metric that did not improve,
\* deformable_align returns the caller's default when one is given, and
\* otherwise the parameters and the displacement field of the initial grid,
\* the field at the original shape of the fixed image.
C16_DeformDefaultOnFallback ==
    (/\ al.fn = "deformable_align"
     /\ al.eng.raise_at # 0 \/ ~(al.eng.final < al.eng.initial)) =>
        /\ ~al.out.raised
        /\ al.out.ret =
               (IF al.default # None THEN al.default
                ELSE Tuple(<<BSplineParams(0),
                             Ndarray(FixShape(al.ndim) \o <<al.ndim>>, 0)>>))

\* =========================================================================
\* ------------------- deformable_align: the schedule of control-point grids
MaxLevel == 4
MaxLevels == 3

\* the control_point_levels lists of a call
LevelLists == UNION { [1..n -> 1..MaxLevel] : n \in 1..MaxLevels }

\* control_point_levels[::-1]
Reversed(s) == [i \in 1..Len(s) |-> s[Len(s) + 1 - i]]

Max(a, b) == IF a >= b THEN a ELSE b

InitialCpGridRounded(x, y, control_point_spacing, control_point_levels) ==
    LET z == control_point_spacing * control_point_levels[1]
    IN  Max(1, (2 * x * y + z) \div (2 * z))

\* max(1, int(x*y/z)) for one axis of size x and spacing y, with
\* z = control_point_spacing * control_point_levels[0]
InitialCpGrid(x, y, control_point_spacing, control_point_levels) ==
    Max(1, (x * y) \div (control_point_spacing * control_point_levels[1]))

\* SetInitialTransformAsBSpline(transform, inPlace=True, scaleFactors=...):
\* the optimization of level i runs on the initial mesh scaled by
\* scaleFactors[i]
MeshSizes(initial_cp_grid, scaleFactors) ==
    [i \in 1..Len(scaleFactors) |-> initial_cp_grid * scaleFactors[i]]

InitGrid ==
    /\ IdlePipeline
    /\ \E x \in {3, 12, 14, 24}, y \in {1, 2}, cps \in {1, 2}, levels \in LevelLists :
         al = [fn |-> "deformable_align", pc |-> "configure",
               size |-> x, spacing |-> y, control_point_spacing |-> cps,
               control_point_levels |-> levels,
               initial_cp_grid |-> 0, mesh |-> <<>>]

ConfigureBSpline ==
    /\ al.pc = "configure"
    /\ LET g == InitialCpGrid(al.size, al.spacing, al.control_point_spacing,
                              al.control_point_levels)
       IN  al' = [al EXCEPT !.pc = "configured",
                            !.initial_cp_grid = g,
                            !.mesh = MeshSizes(g, Reversed(al.control_point_levels))]
    /\ UNCHANGED pipeline_vars

NextGrid == ConfigureBSpline

SpecGrid == InitGrid /\ [][NextGrid]_vars

\* C17: stage i is optimized at control-point spacing
\* control_point_spacing * control_point_levels[i], for every list of
\* levels: with the initial grid at control_point_spacing *
\* control_point_levels[0], the spacings of stage i and of the initial grid
\* are in the ratio control_point_levels[i] : control_point_levels[0], and
\* so are, inversely, their mesh sizes.
C17_StageSpacing ==
    al.pc = "configured" =>
        \A i \in 1..Len(al.control_point_levels) :
            al.mesh[i] * al.control_point_levels[i] =
                al.initial_cp_grid * al.control_point_levels[1]

C19_CallerObjectsUntouched ==
    [][/\ steps' = steps
       /\ kwargs' = kwargs
       /\ caller'.default_static = <<>>
       /\ caller'.earlier = caller.earlier =>
              static_transform_list' = static_transform_list
       /\ caller'.earlier # caller.earlier => static_transform_list' = <<>>]_vars

C19_Witness ==
    /\ caller.earlier = "omitted"
    /\ caller.omitted
    /\ pc = "done"
    /\ Len(new_transforms) = 2
    /\ static_transform_list = <<>>

\* =========================================================================
\* ------------------------------------------------- apply_alignment_spacing
\* a 1d array of voxel spacings with its dtype
Spacing(dtype, v) == [t |-> "spacing", dtype |-> dtype, v |-> v]

\* spacing.astype(np.float64): a new array of the same values as floats
AsFloat64(spacing) == Spacing("float64", spacing.v)

\* ut.relative_spacing(query, reference, reference_spacing):
\* reference_spacing * (reference.shape / query.shape)
relative_spacing(query, reference, reference_spacing) ==
    Spacing("float64",
            [i \in DOMAIN reference_spacing.v |->
                (reference_spacing.v[i] * reference.shape[i]) \div query.shape[i]])

\* np.round(a / b), halves to the even neighbour, for positive a and b
Round(a, b) ==
    LET q == a \div b
        r == a % b
    IN  IF 2 * r < b THEN q
        ELSE IF 2 * r > b THEN q + 1
        ELSE IF q % 2 = 0 THEN q ELSE q + 1

\* ut.skip_sample(image, spacing, target_spacing): every ss-th voxel along
\* each axis, ss = max(round(target_spacing / spacing), 1)
skip_sample(image, spacing, target_spacing) ==
    LET ss == [i \in DOMAIN spacing.v |-> Max(Round(target_spacing, spacing.v[i]), 1)]
    IN  <<Ndarray([i \in DOMAIN image.shape |->
                      (image.shape[i] + ss[i] - 1) \div ss[i]], image.val),
          Spacing("float64", [i \in DOMAIN spacing.v |-> spacing.v[i] * ss[i]])>>

MaskSpacingCopied(mask, image, spacing) ==
    IF mask = None THEN None ELSE spacing

\* "get mask spacings"
MaskSpacing(mask, image, spacing) ==
    IF mask = None THEN None ELSE relative_spacing(mask, image, spacing)

\* "skip sample": an image or a present mask with its spacing
SkipSampled(image, spacing, alignment_spacing) ==
    IF alignment_spacing = None \/ alignment_spacing.v = 0 \/ image = None
    THEN <<image, spacing>>
    ELSE skip_sample(image, spacing, alignment_spacing.v)

apply_alignment_spacing(fix, mov, fix_mask, mov_mask, fix_spacing, mov_spacing, alignment_spacing) ==
    LET fs == AsFloat64(fix_spacing)
        ms == AsFloat64(mov_spacing)
        f  == SkipSampled(fix, fs, alignment_spacing)
        m  == SkipSampled(mov, ms, alignment_spacing)
        fm == SkipSampled(fix_mask, MaskSpacing(fix_mask, fix, fs), alignment_spacing)
        mm == SkipSampled(mov_mask, MaskSpacing(mov_mask, mov, ms), alignment_spacing)
    IN  <<f[1], m[1], fm[1], mm[1], f[2], m[2], fm[2], mm[2]>>

\* the images, masks and spacings of a call, in 2D
ImageShapes == { <<8, 8>>, <<8, 4>> }
MasksOf(image, val) ==
    { None, Ndarray(image.shape, val),
      Ndarray([i \in DOMAIN image.shape |-> image.shape[i] \div 2], val) }
Spacings == { Spacing("int64", <<1, 1>>), Spacing("int64", <<1, 2>>),
              Spacing("float64", <<2, 2>>) }
AlignmentSpacings == { None, PyInt(2), PyInt(3), PyInt(4) }

InitSpacing ==
    /\ IdlePipeline
    /\ \E fsh \in ImageShapes, msh \in ImageShapes :
       \E fm \in MasksOf(Ndarray(fsh, 1), 3), mm \in MasksOf(Ndarray(msh, 2), 4),
          fs \in Spacings, ms \in Spacings, as \in AlignmentSpacings :
         al = [fn |-> "apply_alignment_spacing", pc |-> "called",
               fix |-> Ndarray(fsh, 1), mov |-> Ndarray(msh, 2),
               fix_mask |-> fm, mov_mask |-> mm,
               fix_spacing |-> fs, mov_spacing |-> ms,
               alignment_spacing |-> as, ret |-> <<>>]

ApplyAlignmentSpacing ==
    /\ al.pc = "called"
    /\ al' = [al EXCEPT !.pc = "returned",
                        !.ret = apply_alignment_spacing(
                                    al.fix, al.mov, al.fix_mask, al.mov_mask,
                                    al.fix_spacing, al.mov_spacing,
                                    al.alignment_spacing)]
    /\ UNCHANGED pipeline_vars

NextSpacing == ApplyAlignmentSpacing

SpecSpacing == InitSpacing /\ [][NextSpacing]_vars

\* the spacing of a mask follows from the ratio of the shapes
RatioSpacing(mask_spacing, mask, image, spacing) ==
    \A i \in DOMAIN spacing.v :
        mask_spacing.v[i] * mask.shape[i] = spacing.v[i] * image.shape[i]

\* C20: without a target spacing the function returns the images and masks
\* it was given and the spacing values it was given; an absent mask comes
\* back as None with spacing None; the spacing of a present mask is the
\* image spacing times the ratio of image shape to mask shape.
C20_NoTargetSpacing ==
    (al.pc = "returned" /\ al.alignment_spacing = None) =>
        /\ Len(al.ret) = 8
        /\ al.ret[1] = al.fix /\ al.ret[2] = al.mov
        /\ al.ret[3] = al.fix_mask /\ al.ret[4] = al.mov_mask
        /\ al.ret[5].v = al.fix_spacing.v /\ al.ret[6].v = al.mov_spacing.v
        /\ IF al.fix_mask = None THEN al.ret[7] = None
           ELSE RatioSpacing(al.ret[7], al.fix_mask, al.fix, al.fix_spacing)
        /\ IF al.mov_mask = None THEN al.ret[8] = None
           ELSE RatioSpacing(al.ret[8], al.mov_mask, al.mov, al.mov_spacing)

C20_Witness ==
    /\ al.pc = "returned"
    /\ al.alignment_spacing = None
    /\ al.fix_mask = None
    /\ al.mov_mask # None
    /\ al.mov_mask.shape # al.mov.shape
    /\ al.ret[8].v # al.mov_spacing.v

\* =========================================================================
\* the physical extent of the axis of a configured call, and the coarsest
\* control-point spacing
Extent(c) == c.size * c.spacing
Coarsest(c) == c.control_point_spacing * c.control_point_levels[1]

\* C21 as stated: the initial grid has max(1, round(extent / coarsest
\* spacing)) cells on the axis.
C21_RoundedGrid ==
    al.pc = "configured" =>
        al.initial_cp_grid = Max(1, Round(Extent(al), Coarsest(al)))

\* C21 as amended: the initial grid has max(1, n) cells on the axis, n the
\* quotient extent / coarsest spacing truncated to an integer: the largest n
\* with n * coarsest spacing <= extent.
C21_TruncatedGrid ==
    al.pc = "configured" =>
        LET g == al.initial_cp_grid
        IN  IF Extent(al) < Coarsest(al) THEN g = 1
            ELSE /\ g * Coarsest(al) <= Extent(al)
                 /\ Extent(al) < (g + 1) * Coarsest(al)

C21_Witness ==
    /\ al.pc = "configured"
    /\ Extent(al) > Coarsest(al)
    /\ 2 * (Extent(al) % Coarsest(al)) > Coarsest(al)
    /\ al.initial_cp_grid = Extent(al) \div Coarsest(al)

\* =========================================================================
\* C22: when the consensus fitter reports failure through its success flag,
\* feature_point_ransac_affine_align returns its default, the identity when
\* unset, raises nothing, and returns no matrix built from that fit.
C22_FailedFitReturnsDefault ==
    (/\ al.fn = "feature_point_ransac_affine_align"
     /\ InSeq("estimateAffine3D", al.invoked)
     /\ ~al.run.fit_ok) =>
        /\ ~al.out.raised
        /\ al.out.log # "fitted"
        /\ al.out.ret = (IF al.default = None THEN Eye(al.ndim + 1) ELSE al.default)

\* =========================================================================
\* C23: with a return_format other than 'independent', 'compressed' and
\* 'flatten' the pipeline raises nothing at the return: every step has been
\* executed once, in order, and the call returns None, whatever transforms
\* the steps produced.
C23_UnknownFormatReturnsNone ==
    return_format = Str("other") =>
        /\ pc = "done"
        /\ result = None
        /\ Len(calls) = Len(steps)
        /\ Len(new_transforms) = Len(steps)
        /\ \A k \in 1..Len(calls) :
               /\ calls[k].step = k
               /\ calls[k].alignment = steps[k].alignment
               /\ ~calls[k].raised

C23_Witness ==
    /\ pc = "done"
    /\ return_format = Str("other")
    /\ Len(steps) = 2
    /\ Len(new_transforms) = 2
    /\ result = None

====
